---- MODULE Spec2Model ----
(***************************************************************************)
(* A model of the heapless sliding window of src/src/lib.rs:               *)
(* SlidingWindow<IT, N> with its Index implementation, its two iterators   *)
(* and the wrapping arithmetic helper.                                     *)
(*                                                                         *)
(* An element of type IT is modelled as a record [id, val]: val is the     *)
(* value the caller inserted and id is the identity of the object (its     *)
(* ordinal among all insertions), so that moves and drops of one object    *)
(* can be followed.  A slot of MaybeUninit<IT> holds either an element or  *)
(* Uninit.                                                                 *)
(***************************************************************************)
EXTENDS Integers, Sequences, FiniteSets

\* ---- bounds of the model ------------------------------------------------
MaxCap == 3          \* capacities N::USIZE explored: 1..MaxCap
MaxIns == 5          \* insertions over the lifetime of one window
MaxVal == 1          \* inserted values are drawn from 1..MaxVal; the code
                     \* never inspects a value, objects are told apart by id
UsizeBits == 3       \* width of usize in the model

\* ---- the test scenario of src/src/lib.rs (test::iter, unordered_iter) ----
TestCap == 4         \* SlidingWindow<_, U4>
TestLen == 6         \* sw.insert(1) .. sw.insert(6)

UsizeMax == 2 ^ UsizeBits - 1
Values == 1 .. MaxVal

VARIABLES
    cap,          \* N::USIZE, the capacity fixed by the type
    items,        \* SlidingWindow::items, slot index -> element or Uninit
    write_idx,    \* SlidingWindow::write_idx
    is_full,      \* SlidingWindow::is_full
    alive,        \* the window has not gone out of scope yet
    it,           \* the live Iter (start, offset, count), if any
    uit,          \* the live UnorderedIter (offset), if any
    it_out,       \* elements the live Iter has yielded so far
    uit_out,      \* elements the live UnorderedIter has yielded so far
    res,          \* what the last operation returned
    hist,         \* elements inserted since creation or the last clear
    nins,         \* number of insertions over the lifetime of the window
    drops,        \* drops[id]: how many times the window dropped element id
    evicted,      \* ids of the elements insert returned to the caller
    uninit_access, \* some operation dereferenced or dropped an Uninit slot
    arith         \* the last direct call of a WrappingExt method and its result

vars == <<cap, items, write_idx, is_full, alive, it, uit, it_out, uit_out,
          res, hist, nins, drops, evicted, uninit_access, arith>>

window == <<items, write_idx, is_full>>
ghost == <<hist, nins, drops, evicted>>
iters == <<it, uit, it_out, uit_out>>

\* ---- elements and slots ---------------------------------------------------
Uninit == [id |-> 0, val |-> 0]
Elem(i, v) == [id |-> i, val |-> v]
\* what a read of uninitialised memory may produce: any bit pattern of IT
Garbage == {Elem(0, v) : v \in Values}
\* the outcomes of dereferencing slot s
SlotRead(s) == IF s = Uninit THEN Garbage ELSE {s}

Min(a, b) == IF a < b THEN a ELSE b

\* ---- mod wrapping -----------------------------------------------------------
\* wrapping_add_limited resetting to 0 on reaching max instead of reducing
wrapping_add_limited_reset(self, r, max) ==
    IF self + r <= UsizeMax
    THEN IF self + r >= max THEN 0 ELSE self + r
    ELSE (r - (UsizeMax - self)) % max

wrapping_add_limited(self, r, max) ==
    IF self + r <= UsizeMax
    THEN (self + r) % max
    ELSE (r - (UsizeMax - self)) % max

\* wrapping_add1_limited wrapping one step early
wrapping_add1_limited_early(self, max) ==
    IF self + 1 >= max - 1 THEN 0 ELSE self + 1

wrapping_add1_limited(self, max) ==
    IF self = max - 1 THEN 0 ELSE self + 1

\* ---- SlidingWindow ----------------------------------------------------------
\* GenericArray::generate(|_| MaybeUninit::uninit())
EmptyItems(n) == [k \in 0 .. n - 1 |-> Uninit]

\* count() ignoring the fullness flag
count_cursor == write_idx

\* count() reporting the capacity whether the window is full or not
count_capacity == cap

count == IF is_full THEN cap ELSE write_idx

NoIter == [live |-> FALSE, start |-> 0, offset |-> 0, count |-> 0]
NoUIter == [live |-> FALSE, offset |-> 0]

\* the result of an operation: kind is "none", "some", "panic", "num", "bool"
Res(op, idx, kind, elem, num) ==
    [op |-> op, idx |-> idx, kind |-> kind, elem |-> elem, num |-> num]

\* a call of a WrappingExt method: its arguments, and its result or panic
Arith(fn, base, offset, max, out, panic) ==
    [fn |-> fn, base |-> base, offset |-> offset, max |-> max,
     out |-> out, panic |-> panic]
NoArith == Arith("none", 0, 0, 0, 0, FALSE)

\* SlidingWindow::new / Default::default
InitWith(n) ==
    /\ cap = n
    /\ items = EmptyItems(n)
    /\ write_idx = 0
    /\ is_full = FALSE
    /\ alive = TRUE
    /\ it = NoIter
    /\ uit = NoUIter
    /\ it_out = <<>>
    /\ uit_out = <<>>
    /\ res = Res("new", 0, "none", Uninit, 0)
    /\ hist = <<>>
    /\ nins = 0
    /\ drops = <<>>
    /\ evicted = {}
    /\ uninit_access = FALSE
    /\ arith = NoArith

Init == \E n \in 1 .. MaxCap : InitWith(n)

\* a mutable borrow of the window: no iterator is alive
Exclusive == alive /\ ~it.live /\ ~uit.live

\* insert wrapping the cursor at the last slot without setting is_full
insert_never_full(v) ==
    /\ Exclusive
    /\ LET new == Elem(nins + 1, v) IN
       /\ nins' = nins + 1
       /\ hist' = Append(hist, new)
       /\ drops' = Append(drops, 0)
       /\ IF ~is_full
          THEN /\ items' = [items EXCEPT ![write_idx] = new]
               /\ IF write_idx = cap - 1
                  THEN write_idx' = 0 /\ is_full' = FALSE
                  ELSE write_idx' = write_idx + 1 /\ is_full' = FALSE
               /\ res' = Res("insert", 0, "none", Uninit, 0)
               /\ evicted' = evicted
               /\ uninit_access' = uninit_access
          ELSE /\ items' = [items EXCEPT ![write_idx] = new]
               /\ write_idx' = wrapping_add1_limited(write_idx, cap)
               /\ is_full' = is_full
               /\ \E old \in SlotRead(items[write_idx]) :
                      res' = Res("insert", 0, "some", old, 0)
               /\ evicted' = evicted \cup ({items[write_idx].id} \ {0})
               /\ uninit_access' =
                      (uninit_access \/ items[write_idx] = Uninit)
    /\ UNCHANGED <<arith, cap, alive, iters>>

\* SlidingWindow::insert(t), t being the nins+1-th object with value v
insert(v) ==
    /\ Exclusive
    /\ LET new == Elem(nins + 1, v) IN
       /\ nins' = nins + 1
       /\ hist' = Append(hist, new)
       /\ drops' = Append(drops, 0)
       /\ IF ~is_full
          THEN /\ items' = [items EXCEPT ![write_idx] = new]
               /\ IF write_idx = cap - 1
                  THEN write_idx' = 0 /\ is_full' = TRUE
                  ELSE write_idx' = write_idx + 1 /\ is_full' = FALSE
               /\ res' = Res("insert", 0, "none", Uninit, 0)
               /\ evicted' = evicted
               /\ uninit_access' = uninit_access
          ELSE /\ items' = [items EXCEPT ![write_idx] = new]
               /\ write_idx' = wrapping_add1_limited(write_idx, cap)
               /\ is_full' = is_full
               /\ \E old \in SlotRead(items[write_idx]) :
                      res' = Res("insert", 0, "some", old, 0)
               /\ evicted' = evicted \cup ({items[write_idx].id} \ {0})
               /\ uninit_access' =
                      (uninit_access \/ items[write_idx] = Uninit)
    /\ UNCHANGED <<arith, cap, alive, iters>>

\* clear dropping the slots below the write cursor only
drop_range_cursor == 0 .. write_idx - 1

\* the slots clear passes to drop_in_place: &mut self.items[0..count]
drop_range == 0 .. count - 1

\* clear resetting the cursor but not the fullness flag
clear_keep_full ==
    /\ Exclusive
    /\ drops' = [i \in 1 .. nins |->
                    IF \E k \in 0 .. count - 1 : items[k].id = i
                    THEN drops[i] + 1 ELSE drops[i]]
    /\ uninit_access' =
           (uninit_access \/ \E k \in 0 .. count - 1 : items[k] = Uninit)
    /\ items' = EmptyItems(cap)
    /\ write_idx' = 0
    /\ is_full' = is_full
    /\ hist' = <<>>
    /\ res' = Res("clear", 0, "none", Uninit, 0)
    /\ UNCHANGED <<arith, cap, alive, nins, evicted, iters>>

\* SlidingWindow::clear
clear ==
    /\ Exclusive
    /\ drops' = [i \in 1 .. nins |->
                    IF \E k \in drop_range : items[k].id = i
                    THEN drops[i] + 1 ELSE drops[i]]
    /\ uninit_access' =
           (uninit_access \/ \E k \in drop_range : items[k] = Uninit)
    /\ items' = EmptyItems(cap)
    /\ write_idx' = 0
    /\ is_full' = FALSE
    /\ hist' = <<>>
    /\ res' = Res("clear", 0, "none", Uninit, 0)
    /\ UNCHANGED <<arith, cap, alive, nins, evicted, iters>>

\* Index::index(idx)
index(idx) ==
    /\ alive
    /\ IF ~is_full /\ ~(idx < write_idx)
       THEN \* assert!(idx < self.write_idx, ...) fails
            /\ res' = Res("index", idx, "panic", Uninit, 0)
            /\ uninit_access' = uninit_access
       ELSE LET read_from == IF is_full
                             THEN wrapping_add_limited(write_idx, idx, cap)
                             ELSE idx
            IN /\ \E e \in SlotRead(items[read_from]) :
                      res' = Res("index", idx, "some", e, read_from)
               /\ uninit_access' =
                      (uninit_access \/ items[read_from] = Uninit)
    /\ UNCHANGED <<arith, cap, window, alive, ghost, iters>>

\* SlidingWindow::is_full()
is_full_call ==
    /\ alive
    /\ res' = Res("is_full", 0, IF is_full THEN "true" ELSE "false", Uninit, 0)
    /\ UNCHANGED <<arith, cap, window, alive, ghost, iters, uninit_access>>

\* SlidingWindow::count()
count_call ==
    /\ alive
    /\ res' = Res("count", 0, "num", Uninit, count)
    /\ UNCHANGED <<arith, cap, window, alive, ghost, iters, uninit_access>>

\* the window goes out of scope: SlidingWindow has no Drop implementation and
\* dropping a MaybeUninit<IT> does not drop the IT inside it
destroy ==
    /\ Exclusive
    /\ alive' = FALSE
    /\ res' = Res("drop", 0, "none", Uninit, 0)
    /\ UNCHANGED <<arith, cap, window, ghost, iters, uninit_access>>

\* iter() always starting at physical slot 0
iter_from_zero ==
    /\ alive
    /\ ~it.live
    /\ it' = [live |-> TRUE, start |-> 0, offset |-> 0, count |-> count]
    /\ it_out' = <<>>
    /\ res' = Res("iter", 0, "none", Uninit, 0)
    /\ UNCHANGED <<arith, cap, window, alive, ghost, uit, uit_out, uninit_access>>

\* SlidingWindow::iter
iter ==
    /\ alive
    /\ ~it.live
    /\ it' = [live |-> TRUE,
              start |-> IF is_full THEN write_idx ELSE 0,
              offset |-> 0,
              count |-> count]
    /\ it_out' = <<>>
    /\ res' = Res("iter", 0, "none", Uninit, 0)
    /\ UNCHANGED <<arith, cap, window, alive, ghost, uit, uit_out, uninit_access>>

\* Iter::next advancing the start slot along with the offset
iter_next_moves_start ==
    /\ it.live
    /\ IF it.offset < it.count
       THEN LET read_from == wrapping_add_limited(it.start, it.offset, cap)
            IN /\ it' = [it EXCEPT !.offset = it.offset + 1,
                                   !.start = wrapping_add1_limited(it.start, cap)]
               /\ \E e \in SlotRead(items[read_from]) :
                      /\ res' = Res("next", 0, "some", e, read_from)
                      /\ it_out' = Append(it_out, e)
               /\ uninit_access' =
                      (uninit_access \/ items[read_from] = Uninit)
       ELSE /\ res' = Res("next", 0, "none", Uninit, 0)
            /\ UNCHANGED <<it, it_out, uninit_access>>
    /\ UNCHANGED <<arith, cap, window, alive, ghost, uit, uit_out>>

\* Iter::next
iter_next ==
    /\ it.live
    /\ IF it.offset < it.count
       THEN LET read_from == wrapping_add_limited(it.start, it.offset, cap)
            IN /\ it' = [it EXCEPT !.offset = it.offset + 1]
               /\ \E e \in SlotRead(items[read_from]) :
                      /\ res' = Res("next", 0, "some", e, read_from)
                      /\ it_out' = Append(it_out, e)
               /\ uninit_access' =
                      (uninit_access \/ items[read_from] = Uninit)
       ELSE /\ res' = Res("next", 0, "none", Uninit, 0)
            /\ UNCHANGED <<it, it_out, uninit_access>>
    /\ UNCHANGED <<arith, cap, window, alive, ghost, uit, uit_out>>

\* Iter::size_hint: (remaining, Some(remaining))
size_hint(i) ==
    LET remaining == i.count - i.offset IN <<remaining, remaining>>

\* Iter::size_hint called on the live Iter; res.idx is the lower bound and
\* res.num the upper bound
iter_size_hint ==
    /\ it.live
    /\ res' = Res("size_hint", size_hint(it)[1], "some", Uninit,
                  size_hint(it)[2])
    /\ UNCHANGED <<arith, cap, window, alive, ghost, iters, uninit_access>>

\* ExactSizeIterator::len of Iter: the lower bound of size_hint
iter_len ==
    /\ it.live
    /\ res' = Res("len", 0, "num", Uninit, size_hint(it)[1])
    /\ UNCHANGED <<arith, cap, window, alive, ghost, iters, uninit_access>>

\* the Iter goes out of scope, ending its borrow of the window
iter_drop ==
    /\ it.live
    /\ it' = NoIter
    /\ it_out' = <<>>
    /\ res' = Res("iter_drop", 0, "none", Uninit, 0)
    /\ UNCHANGED <<arith, cap, window, alive, ghost, uit, uit_out, uninit_access>>

\* iter_unordered() taking the write cursor for the element count
iter_unordered_cursor ==
    /\ alive
    /\ ~uit.live
    /\ uit' = [live |-> TRUE, offset |-> write_idx]
    /\ uit_out' = <<>>
    /\ res' = Res("iter_unordered", 0, "none", Uninit, 0)
    /\ UNCHANGED <<arith, cap, window, alive, ghost, it, it_out, uninit_access>>

\* SlidingWindow::iter_unordered
iter_unordered ==
    /\ alive
    /\ ~uit.live
    /\ uit' = [live |-> TRUE, offset |-> count]
    /\ uit_out' = <<>>
    /\ res' = Res("iter_unordered", 0, "none", Uninit, 0)
    /\ UNCHANGED <<arith, cap, window, alive, ghost, it, it_out, uninit_access>>

\* UnorderedIter::next stopping one element early
unordered_next_early ==
    /\ uit.live
    /\ IF uit.offset > 1
       THEN LET read_from == uit.offset - 1
            IN /\ uit' = [uit EXCEPT !.offset = read_from]
               /\ \E e \in SlotRead(items[read_from]) :
                      /\ res' = Res("unordered_next", 0, "some", e, read_from)
                      /\ uit_out' = Append(uit_out, e)
               /\ uninit_access' =
                      (uninit_access \/ items[read_from] = Uninit)
       ELSE /\ res' = Res("unordered_next", 0, "none", Uninit, 0)
            /\ UNCHANGED <<uit, uit_out, uninit_access>>
    /\ UNCHANGED <<arith, cap, window, alive, ghost, it, it_out>>

\* UnorderedIter::next
unordered_next ==
    /\ uit.live
    /\ IF uit.offset > 0
       THEN LET read_from == uit.offset - 1
            IN /\ uit' = [uit EXCEPT !.offset = read_from]
               /\ \E e \in SlotRead(items[read_from]) :
                      /\ res' = Res("unordered_next", 0, "some", e, read_from)
                      /\ uit_out' = Append(uit_out, e)
               /\ uninit_access' =
                      (uninit_access \/ items[read_from] = Uninit)
       ELSE /\ res' = Res("unordered_next", 0, "none", Uninit, 0)
            /\ UNCHANGED <<uit, uit_out, uninit_access>>
    /\ UNCHANGED <<arith, cap, window, alive, ghost, it, it_out>>

\* UnorderedIter::size_hint: (remaining, Some(remaining))
unordered_size_hint_of(u) ==
    LET remaining == u.offset IN <<remaining, remaining>>

\* UnorderedIter::size_hint called on the live UnorderedIter
unordered_size_hint ==
    /\ uit.live
    /\ res' = Res("unordered_size_hint", unordered_size_hint_of(uit)[1],
                  "some", Uninit, unordered_size_hint_of(uit)[2])
    /\ UNCHANGED <<arith, cap, window, alive, ghost, iters, uninit_access>>

\* ExactSizeIterator::len of UnorderedIter
unordered_len ==
    /\ uit.live
    /\ res' = Res("unordered_len", 0, "num", Uninit,
                  unordered_size_hint_of(uit)[1])
    /\ UNCHANGED <<arith, cap, window, alive, ghost, iters, uninit_access>>

\* the UnorderedIter goes out of scope
unordered_drop ==
    /\ uit.live
    /\ uit' = NoUIter
    /\ uit_out' = <<>>
    /\ res' = Res("unordered_drop", 0, "none", Uninit, 0)
    /\ UNCHANGED <<arith, cap, window, alive, ghost, it, it_out, uninit_access>>

Next ==
    \/ \E v \in Values : nins < MaxIns /\ insert(v)
    \/ clear
    \/ \E idx \in 0 .. UsizeMax : index(idx)
    \/ is_full_call
    \/ count_call
    \/ destroy
    \/ iter
    \/ iter_next
    \/ iter_size_hint
    \/ iter_len
    \/ iter_drop
    \/ iter_unordered
    \/ unordered_next
    \/ unordered_size_hint
    \/ unordered_len
    \/ unordered_drop

Spec == Init /\ [][Next]_vars

\* ---- the scenario of the tests: a U4 window fed 1, 2, 3, ... ---------------
InitTest == InitWith(TestCap)

NextTest ==
    \/ nins < TestLen /\ insert(nins + 1)
    \/ clear
    \/ \E idx \in 0 .. UsizeMax : index(idx)
    \/ is_full_call
    \/ count_call
    \/ destroy
    \/ iter
    \/ iter_next
    \/ iter_size_hint
    \/ iter_len
    \/ iter_drop
    \/ iter_unordered
    \/ unordered_next
    \/ unordered_size_hint
    \/ unordered_len
    \/ unordered_drop

SpecTest == InitTest /\ [][NextTest]_vars

\* ---- what the window should hold ---------------------------------------------
\* the last min(N, m) elements inserted since creation or the last clear
Expected == SubSeq(hist, Len(hist) - Min(cap, Len(hist)) + 1, Len(hist))
\* ids of the elements resident in the storage
Resident == {items[k].id : k \in 0 .. cap - 1} \ {0}
\* no clear has removed an inserted element: hist is every insertion so far
Fresh == Len(hist) = nins
\* the iterators have yielded everything: the next call returns None
IterDone == it.live /\ ~(it.offset < it.count)
UIterDone == uit.live /\ ~(uit.offset > 0)
Occ(s, e) == Cardinality({i \in 1 .. Len(s) : s[i] = e})
SameBag(s, t) ==
    /\ Len(s) = Len(t)
    /\ \A i \in 1 .. Len(s) : Occ(s, s[i]) = Occ(t, s[i])
ValsOf(s) == [i \in 1 .. Len(s) |-> s[i].val]

\* ---- the claims ------------------------------------------------------------------

\* C1: what iter() yields is, oldest first, the last min(N, m) elements
\* inserted since creation or the last clear: every partial yield is a prefix
\* of them, the complete yield is all of them, and after M > N insertions
\* into a fresh window it is the N insertions M-N+1 .. M in that order.
C1_IterYieldsLastN ==
    it.live =>
        /\ it_out = SubSeq(Expected, 1, Len(it_out))
        /\ IterDone => it_out = Expected
        /\ (IterDone /\ Fresh /\ nins > cap) =>
               /\ Len(it_out) = cap
               /\ \A j \in 1 .. cap : it_out[j].id = nins - cap + j

C1_Witness ==
    /\ IterDone
    /\ res.op = "next" /\ res.kind = "none"
    /\ Fresh /\ nins > cap /\ cap >= 2
    /\ write_idx > 0
    /\ it_out = Expected

\* C2: insert returns None when the window was not full before the call and
\* otherwise Some(old), old being the oldest resident element, inserted N
\* insertions before the new one; the N+1-th insertion into a fresh window
\* returns the first element ever inserted and leaves count() = N, is_full().
C2_InsertReturnsOldest ==
    [][(res'.op = "insert" /\ nins' = nins + 1) =>
          /\ IF ~is_full
             THEN res'.kind = "none"
             ELSE /\ res'.kind = "some"
                  /\ res'.elem = Expected[1]
                  /\ res'.elem = hist'[Len(hist') - cap]
          /\ (Fresh /\ nins = cap) =>
                 /\ res'.kind = "some"
                 /\ res'.elem.id = 1
                 /\ count' = cap
                 /\ is_full']_vars

C2_Witness ==
    /\ res.op = "insert" /\ res.kind = "some"
    /\ Fresh /\ nins = cap + 1 /\ cap >= 2
    /\ res.elem.id = 1
    /\ is_full

\* C3 as stated: after k <= N insertions into a fresh window count() is k and
\* is_full() is false.
C3_Original ==
    (Fresh /\ nins <= cap) => (count = nins /\ ~is_full)

\* C3 as amended: after k <= N insertions into a fresh window count() is k,
\* and is_full() is false for k < N and true for k = N.
C3_CountAfterKInserts ==
    (Fresh /\ nins <= cap) => (count = nins /\ (is_full <=> nins = cap))

C3_Witness ==
    /\ Fresh /\ nins = cap /\ cap >= 2
    /\ res.op = "count" /\ res.num = cap
    /\ is_full

\* C4: an indexed read with idx < count() returns the element idx positions
\* after the oldest resident one (sw[0] is the oldest), read from physical
\* slot (write_idx + idx) mod N when full and from slot idx when not full.
C4_IndexFromOldest ==
    (res.op = "index" /\ res.idx < count) =>
        /\ res.kind = "some"
        /\ res.elem = Expected[res.idx + 1]
        /\ res.num = IF is_full THEN (write_idx + res.idx) % cap ELSE res.idx
        /\ res.elem = items[res.num]

C4_Witness ==
    /\ res.op = "index" /\ res.kind = "some"
    /\ is_full /\ write_idx > 0
    /\ res.idx > 0 /\ res.idx < count
    /\ write_idx + res.idx >= cap
    /\ res.elem = Expected[res.idx + 1]

\* C5 as stated: an indexed read with idx >= count() panics, whether the
\* window is full or not.
C5_Original ==
    (res.op = "index" /\ res.idx >= count) => res.kind = "panic"

\* C6: iter_unordered() yields exactly count() elements, and they are, as a
\* multiset, the resident elements, the same multiset iter() yields.
C6_UnorderedSameBag ==
    UIterDone =>
        /\ Len(uit_out) = count
        /\ SameBag(uit_out, Expected)
        /\ SameBag(ValsOf(uit_out), ValsOf(Expected))
        /\ {uit_out[j].id : j \in 1 .. Len(uit_out)} = Resident
        /\ IterDone => SameBag(uit_out, it_out)

C6_Witness ==
    /\ UIterDone /\ IterDone
    /\ is_full /\ write_idx > 0 /\ cap >= 2
    /\ Len(uit_out) = cap
    /\ uit_out # it_out
    /\ \E i, j \in 1 .. cap : i # j /\ uit_out[i].val = uit_out[j].val
    /\ SameBag(uit_out, it_out)

\* C7 as stated: in a capacity-4 window after inserting 1, 2, 3, 4, 5, 6 the
\* first element iter_unordered() yields is 5, the content of physical slot
\* 0, and the first element iter() yields is 3.
C7_Original ==
    (cap = 4 /\ ValsOf(hist) = <<1, 2, 3, 4, 5, 6>>) =>
        /\ (uit.live /\ Len(uit_out) >= 1) =>
               (uit_out[1].val = 5 /\ uit_out[1] = items[0])
        /\ (it.live /\ Len(it_out) >= 1) => it_out[1].val = 3

\* C8: clear() leaves the window in the state of a freshly created one:
\* count() = 0, is_full() false, write_idx = 0 and no slot populated.
C8_ClearResets ==
    res.op = "clear" =>
        /\ count = 0
        /\ ~is_full
        /\ write_idx = 0
        /\ \A k \in 0 .. cap - 1 : items[k] = Uninit
        /\ DOMAIN items = 0 .. cap - 1
        /\ hist = <<>>

C8_Witness ==
    /\ res.op = "clear"
    /\ cap >= 2 /\ nins = cap + 1
    /\ Cardinality(evicted) = 1
    /\ Cardinality({i \in 1 .. nins : drops[i] = 1}) = cap
    /\ count = 0

\* C9 as stated: when the window has gone out of scope, every element that
\* was resident has been dropped exactly once.
C9_Original ==
    ~alive => \A i \in Resident : drops[i] = 1

\* C10: clear() drops each resident element exactly once and leaks none; no
\* element is ever dropped more than once, a resident element has not been
\* dropped, and an element insert returned to the caller is never dropped
\* by the window.
C10_ClearDropsOnce ==
    /\ \A i \in 1 .. nins : drops[i] <= 1
    /\ \A i \in evicted : drops[i] = 0
    /\ \A i \in Resident : drops[i] = 0 /\ i \notin evicted
    /\ res.op = "clear" =>
           \A i \in 1 .. nins : i \notin evicted => drops[i] = 1

C10_Witness ==
    /\ res.op = "clear"
    /\ evicted # {}
    /\ \E i, j \in 1 .. nins : i + 1 < j /\ drops[i] = 1 /\ drops[j] = 1
    /\ \A i \in 1 .. nins : i \notin evicted => drops[i] = 1

\* ---- the wrapping arithmetic called on its own, as wrapping::test does --------
Usize == 0 .. UsizeMax
\* debug builds panic on integer overflow, release builds wrap
Builds == {"debug", "release"}

\* usize::wrapping_add_limited(self, r, max)
call_wrapping_add_limited(self, r, max) ==
    /\ arith' = IF max = 0
                THEN \* % 0 panics in every build
                     Arith("add", self, r, max, 0, TRUE)
                ELSE Arith("add", self, r, max,
                           wrapping_add_limited(self, r, max), FALSE)
    /\ UNCHANGED <<cap, window, alive, ghost, iters, res, uninit_access>>

\* usize::wrapping_add1_limited(self, max)
call_wrapping_add1_limited(self, max) ==
    /\ \E build \in Builds :
          LET \* max - 1
              lim == IF max = 0 THEN UsizeMax ELSE max - 1
              overflow == max = 0 \/ (self # lim /\ self = UsizeMax)
              out == IF self = lim THEN 0 ELSE (self + 1) % (UsizeMax + 1)
          IN arith' = IF overflow /\ build = "debug"
                      THEN Arith("add1", self, 0, max, 0, TRUE)
                      ELSE IF overflow
                           THEN Arith("add1", self, 0, max, out, FALSE)
                           ELSE Arith("add1", self, 0, max,
                                      wrapping_add1_limited(self, max), FALSE)
    /\ UNCHANGED <<cap, window, alive, ghost, iters, res, uninit_access>>

InitWrap == InitWith(1)

NextWrap ==
    \/ \E self, r, max \in Usize : call_wrapping_add_limited(self, r, max)
    \/ \E self, max \in Usize : call_wrapping_add1_limited(self, max)

SpecWrap == InitWrap /\ [][NextWrap]_vars

\* C11 as stated: for all base, offset and capacity >= 1 of the native
\* unsigned type, wrapping_add_limited(base, offset, capacity) is the exact
\* (base + offset) mod capacity, also when base + offset overflows the type.
C11_Original ==
    (arith.fn = "add" /\ arith.max >= 1) =>
        /\ ~arith.panic
        /\ arith.out = (arith.base + arith.offset) % arith.max

\* C20: for every capacity >= 1 and base < capacity, wrapping_add1_limited
\* returns (base + 1) mod capacity, the same as wrapping_add_limited with
\* offset 1, and base = capacity - 1 wraps to 0.
C20_Add1IsModularIncrement ==
    (arith.fn = "add1" /\ arith.max >= 1 /\ arith.base < arith.max) =>
        /\ ~arith.panic
        /\ arith.out = (arith.base + 1) % arith.max
        /\ arith.out = wrapping_add_limited(arith.base, 1, arith.max)
        /\ arith.base = arith.max - 1 => arith.out = 0

C20_Witness ==
    /\ arith.fn = "add1"
    /\ arith.max >= 2
    /\ arith.base = arith.max - 1
    /\ arith.out = 0
    /\ ~arith.panic

\* C12: an iterator created with count() = c yields an element on exactly its
\* first c calls of next() and None on every later call, and after j
\* successful calls len() and size_hint() report c - j, lower bound equal to
\* upper bound; for iter() and for iter_unordered().  The window cannot
\* change while an iterator borrows it, so c is count().
C12_Reported ==
    /\ it.live => (it.count = count /\ Len(it_out) <= count)
    /\ uit.live => Len(uit_out) <= count
    /\ res.op = "len" => res.num = count - Len(it_out)
    /\ res.op = "size_hint" =>
           (res.idx = count - Len(it_out) /\ res.num = res.idx)
    /\ res.op = "unordered_len" => res.num = count - Len(uit_out)
    /\ res.op = "unordered_size_hint" =>
           (res.idx = count - Len(uit_out) /\ res.num = res.idx)

C12_Step ==
    /\ res'.op = "next" =>
           IF Len(it_out) < count
           THEN res'.kind = "some" /\ Len(it_out') = Len(it_out) + 1
           ELSE res'.kind = "none" /\ it_out' = it_out
    /\ res'.op = "unordered_next" =>
           IF Len(uit_out) < count
           THEN res'.kind = "some" /\ Len(uit_out') = Len(uit_out) + 1
           ELSE res'.kind = "none" /\ uit_out' = uit_out

C12_IteratorsYieldCount == [] C12_Reported /\ [][C12_Step]_vars

C12_Witness ==
    /\ it.live /\ uit.live
    /\ is_full /\ cap >= 3
    /\ Len(it_out) = 2
    /\ Len(uit_out) = count
    /\ res.op = "len" /\ res.num = cap - 2

\* the physical slots that hold an element
Populated == {k \in 0 .. cap - 1 : items[k] # Uninit}

\* C13: count() is in [0, N], is write_idx while the window is not full and N
\* once it is full, and is_full() holds exactly when N elements are resident,
\* that is when count() = N; count() is the number of resident elements.
C13_CountAndFullness ==
    /\ count \in 0 .. cap
    /\ ~is_full => count = write_idx
    /\ is_full => count = cap
    /\ is_full <=> Cardinality(Populated) = cap
    /\ is_full <=> count = cap
    /\ count = Cardinality(Populated)
    /\ res.op = "count" => res.num = Cardinality(Populated)
    /\ res.op = "is_full" =>
           (res.kind = "true" <=> Cardinality(Populated) = cap)

C13_Witness ==
    /\ res.op = "is_full" /\ res.kind = "true"
    /\ cap >= 2 /\ write_idx > 0
    /\ count = cap
    /\ Cardinality(Populated) = cap

\* C14: while the window is not full the populated slots are exactly the
\* physical indices [0, write_idx) and hold the inserted elements in
\* insertion order; once full every slot is populated and the oldest resident
\* element is in the slot at write_idx; so the slot at write_idx is populated
\* exactly when the window is full.
C14_StorageLayout ==
    /\ ~is_full =>
           /\ Populated = 0 .. write_idx - 1
           /\ Len(hist) = write_idx
           /\ \A k \in 0 .. write_idx - 1 : items[k] = hist[k + 1]
    /\ is_full =>
           /\ Populated = 0 .. cap - 1
           /\ items[write_idx] = Expected[1]
    /\ write_idx \in Populated <=> is_full

C14_Witness ==
    /\ is_full /\ cap >= 3
    /\ write_idx = 2
    /\ items[write_idx] = Expected[1]
    /\ items[write_idx].id = nins - cap + 1
    /\ Populated = 0 .. cap - 1

\* C15: every insert, on a full window or not, writes the new item into the
\* slot at the write_idx it found and then sets write_idx to
\* (write_idx + 1) mod N; so write_idx is in [0, N) in every reachable state,
\* for every N >= 1, N = 1 included.
C15_Step ==
    res'.op = "insert" =>
        /\ items' = [items EXCEPT ![write_idx] = hist'[Len(hist')]]
        /\ hist'[Len(hist')].id = nins + 1
        /\ write_idx' = (write_idx + 1) % cap

C15_CursorAdvances == [] (write_idx \in 0 .. cap - 1) /\ [][C15_Step]_vars

C15_Witness ==
    /\ cap = 1
    /\ res.op = "insert" /\ res.kind = "some"
    /\ nins >= 3
    /\ write_idx = 0
    /\ items[0].id = nins

\* C16: between creation or a clear and the next clear, is_full turns from
\* false to true on exactly the N-th insertion since then and on no other
\* step; no insert turns it from true to false, and only clear() resets it.
C16_Step ==
    /\ (~is_full /\ is_full') => (res'.op = "insert" /\ Len(hist') = cap)
    /\ (res'.op = "insert" /\ Len(hist') = cap) => (~is_full /\ is_full')
    /\ (res'.op = "insert" /\ is_full) => is_full'
    /\ (is_full /\ ~is_full') => res'.op = "clear"
    /\ res'.op = "clear" => ~is_full'

C16_FullnessTransitions == [][C16_Step]_vars

C16_Witness ==
    /\ res.op = "insert"
    /\ is_full /\ cap >= 2
    /\ Len(hist) = cap
    /\ nins > cap
    /\ \E i \in 1 .. nins : drops[i] = 1

C18_NoUninitAccess ==
    /\ ~uninit_access
    /\ res.kind = "some" /\ res.op \in {"index", "insert", "next",
                                          "unordered_next"} => res.elem.id # 0
    /\ \A j \in 1 .. Len(it_out) : it_out[j].id # 0
    /\ \A j \in 1 .. Len(uit_out) : uit_out[j].id # 0

C18_Witness ==
    /\ res.op = "index" /\ res.kind = "some"
    /\ is_full /\ res.idx >= cap
    /\ res.elem.id # 0
    /\ evicted # {}
    /\ \E i \in 1 .. nins : drops[i] = 1
    /\ it.live /\ Len(it_out) >= 1
    /\ uit.live /\ Len(uit_out) >= 1
    /\ ~uninit_access

\* C19: count(), is_full(), a successful or failing indexed read, iter(),
\* Iter::next, iter_unordered(), UnorderedIter::next and the length hints
\* leave items, write_idx and is_full unchanged, and a step of one iterator
\* changes nothing but that iterator's own offset.
ReadOps == {"count", "is_full", "index", "iter", "next", "size_hint", "len",
            "iter_unordered", "unordered_next", "unordered_size_hint",
            "unordered_len"}

C19_Step ==
    /\ res'.op \in ReadOps =>
           /\ items' = items
           /\ write_idx' = write_idx
           /\ is_full' = is_full
           /\ cap' = cap
    /\ res'.op \in ReadOps \ {"iter", "next"} => it' = it
    /\ res'.op \in ReadOps \ {"iter_unordered", "unordered_next"} => uit' = uit
    /\ res'.op = "next" =>
           \E o \in {it.offset, it.offset + 1} : it' = [it EXCEPT !.offset = o]
    /\ res'.op = "unordered_next" =>
           \E o \in {uit.offset, uit.offset - 1} :
               uit' = [uit EXCEPT !.offset = o]

C19_ReadsLeaveWindow == [][C19_Step]_vars

C19_Witness ==
    /\ res.op = "index" /\ res.kind = "panic"
    /\ ~is_full /\ write_idx >= 2
    /\ it.live /\ it.offset = 1
    /\ uit.live /\ uit.offset = 1
    /\ Populated = 0 .. write_idx - 1

====
